---- MODULE Spec2Model ----
(***************************************************************************)
(* A model of audio/stt.py: the STTService speech-to-text pipeline.        *)
(*                                                                         *)
(* Two actors share the service object: the sounddevice capture thread,    *)
(* which runs _audio_callback while the input stream is open, and the      *)
(* caller's thread, which runs listen_infinite (the consumer loop) and     *)
(* may be told to stop through stop_listening.                             *)
(*                                                                         *)
(* A byte of audio is modelled by its serial number in the capture         *)
(* stream, so every byte is distinct and a lost, repeated or reordered     *)
(* byte is visible.  webrtcvad's is_speech and the whisper.cpp server are  *)
(* external: their answers are nondeterministic choices (is_speech raises  *)
(* for a frame or a sample rate it does not support).  Ctrl-C can reach    *)
(* the caller's thread at any point of listen_infinite.                    *)
(***************************************************************************)
EXTENDS Integers, Sequences, FiniteSets, TLC

\* ------------------------------------------------------------------ bounds

\* Bytes the microphone delivers in one run of the model.
MaxBytes == 6
\* The same, in the runs that play the frame scenarios of the segment
\* assembler (up to eight one-byte frames).
MaxScenarioBytes == 8
\* Longest RawBlock one callback delivers.
MaxBlock == 2
\* RawBlocks waiting in audio_queue (queue.Queue() itself is unbounded).
MaxQueue == 2

\* --------------------------------------------------------------- variables

VARIABLES
    config,             \* the STTConfig handed to the constructor
    device,             \* the microphone: bytes it will deliver, block lengths
    svc,                \* "new" | "ready" | "failed" (the assert of line 40)
    server_url,         \* self.server_url
    language,           \* self.language
    sample_rate,        \* self.sample_rate
    chunk_ms,           \* self.chunk_ms
    frame_bytes,        \* self.frame_bytes
    silence_ms,         \* self.silence_ms
    silence_frames,     \* self.silence_frames
    audio_queue,        \* self.audio_queue: sequence of RawBlocks
    is_listening,       \* self.is_listening
    stream,             \* the sd.InputStream: "closed" | "open"
    pc,                 \* where the caller's thread is in listen_infinite
    leftover_bytes,     \* local of listen_infinite
    speech_buffer,      \* local of listen_infinite: sequence of frames
    num_silent_frames,  \* local of listen_infinite
    in_speech,          \* local of listen_infinite
    audio_data,         \* local of listen_infinite: the payload being dispatched
    transcription,      \* local of listen_infinite: the dispatch result just
                        \* returned (read at lines 120-121 only: forgotten,
                        \* as "", once the frame loop goes on)
    captured,           \* history: bytes delivered by the device so far
    consumed,           \* history: the bytes dequeued in this session, in order
    classified,         \* history: frames handed to vad.is_speech in this session
    segments,           \* history: segments finalized in this session
    posts,              \* history: requests.post calls of this session
    reported,           \* history: "** You said" lines printed in this session
    response,           \* history: what the server did with the POST just
                        \* answered, until the frame loop goes on; or "none"
    cause,              \* history: why this invocation left its loop, or "none"
    stop_requested,     \* history: stop_listening ran during this invocation
    late_waits,         \* history: queue waits completed with the flag cleared
    prev_hi,            \* history: the last byte dequeued by earlier invocations
    stale_head,         \* history: RawBlocks were in the queue when this
                        \* invocation began and it has dequeued nothing
                        \* yet: the head of the queue is one of them
    dispatch_puts,      \* history: RawBlocks enqueued during the POST in flight
    said,               \* history: the "** You said" line just printed
    timed_out           \* history: the consumer's last step was a queue timeout

vars == << config, device, svc, server_url, language, sample_rate, chunk_ms,
           frame_bytes, silence_ms, silence_frames, audio_queue, is_listening, stream, pc,
           leftover_bytes, speech_buffer, num_silent_frames, in_speech,
           audio_data, transcription, captured, consumed,
           classified, segments, posts, reported, response, cause,
           stop_requested, late_waits, prev_hi, stale_head, dispatch_puts,
           said, timed_out >>

cfgVars == << config, device, server_url, language, sample_rate, chunk_ms,
              frame_bytes, silence_ms, silence_frames >>
localVars == << leftover_bytes, speech_buffer, num_silent_frames, in_speech,
                audio_data, transcription >>
histVars == << consumed, classified, segments, posts, reported >>
ctlVars == << response, cause, stop_requested, late_waits >>
noteVars == << prev_hi, stale_head, dispatch_puts, said, timed_out >>

\* ----------------------------------------------------------------- helpers

\* Python's int(a / b) for b > 0: true division, then truncation toward zero.
IntDiv(a, b) == IF a >= 0 THEN a \div b ELSE -((-a) \div b)

\* b"".join(frames)
RECURSIVE Join(_)
Join(frames) ==
    IF frames = << >> THEN << >> ELSE Head(frames) \o Join(Tail(frames))

\* The bytes first+1 .. first+n, as bytes(indata) of the next callback.
NewBlock(first, n) == [i \in 1..n |-> first + i]

\* The configurations the model constructs the service with.  The sample
\* rates are scaled down so that a frame is one to three bytes long.
Timings ==
    { [sample_rate |-> 50, chunk_ms |-> 10, silence_ms |-> 20],
      [sample_rate |-> 50, chunk_ms |-> 20, silence_ms |-> 30],
      [sample_rate |-> 50, chunk_ms |-> 10, silence_ms |-> 5],
      [sample_rate |-> 50, chunk_ms |-> 30, silence_ms |-> 0],
      [sample_rate |-> 50, chunk_ms |-> 15, silence_ms |-> 30],
      [sample_rate |-> 75, chunk_ms |-> 20, silence_ms |-> 30],
      [sample_rate |-> 16000, chunk_ms |-> 30, silence_ms |-> 1200] }

\* The STTConfig objects: a timing, and the server and language of the test
\* program.
Configs ==
    { [sample_rate |-> t.sample_rate, chunk_ms |-> t.chunk_ms,
       silence_ms |-> t.silence_ms,
       server_url |-> "http://127.0.0.1:8080/inference",
       language |-> "fr"] : t \in Timings }

\* The sample rates webrtcvad takes, in Hz.
RealRates == {8000, 16000, 32000, 48000}

\* What transcribe_chunk can hand back: a transcript, "" (no text field),
\* the sentinel of the except branch, or a text field that is not a string.
Sentinel == "[ERROR: no transcription]"
NonString == "<non-string text>"
Results == { " hello ", "", Sentinel, NonString }

\* ------------------------------------------------------------- constructor

\* The state before the constructor runs, but for the configuration and the
\* microphone, which each specification chooses.
Unbuilt ==
    /\ svc = "new"
    /\ server_url = ""
    /\ language = ""
    /\ sample_rate = 0
    /\ chunk_ms = 0
    /\ frame_bytes = 0
    /\ silence_ms = 0
    /\ silence_frames = 0
    /\ audio_queue = << >>
    /\ is_listening = FALSE
    /\ stream = "closed"
    /\ pc = "idle"
    /\ leftover_bytes = << >>
    /\ speech_buffer = << >>
    /\ num_silent_frames = 0
    /\ in_speech = FALSE
    /\ audio_data = << >>
    /\ transcription = ""
    /\ captured = 0
    /\ consumed = << >>
    /\ classified = << >>
    /\ segments = << >>
    /\ posts = << >>
    /\ reported = 0
    /\ response = "none"
    /\ cause = "none"
    /\ stop_requested = FALSE
    /\ late_waits = 0
    /\ prev_hi = 0
    /\ stale_head = FALSE
    /\ dispatch_puts = 0
    /\ said = ""
    /\ timed_out = FALSE

\* Any configuration, and a microphone that delivers MaxBytes bytes in blocks
\* of 0..MaxBlock bytes.
Init ==
    /\ config \in Configs
    /\ device = [total |-> MaxBytes, lens |-> 0..MaxBlock]
    /\ Unbuilt

\* The configurations with one-byte frames, and a microphone that delivers
\* MaxScenarioBytes bytes in blocks of one or two bytes.
ScenarioInit ==
    /\ config \in { c \in Configs : c.sample_rate * 2 * c.chunk_ms = 1000 }
    /\ device = [total |-> MaxScenarioBytes, lens |-> {1, 2}]
    /\ Unbuilt

\* The configurations whose frames are longer than one byte, so that a
\* RawBlock can end inside a frame, and the microphone of Init.
WideFrameInit ==
    /\ config \in { c \in Configs : c.sample_rate * 2 * c.chunk_ms > 1000 }
    /\ device = [total |-> MaxBytes, lens |-> 0..MaxBlock]
    /\ Unbuilt

\* Fault: one byte per sample.
FrameBytes_one_byte(rate, ms) == IntDiv(rate * ms, 1000)

\* self.frame_bytes = int(self.sample_rate * 2 * self.chunk_ms / 1000)
FrameBytes(rate, ms) == IntDiv(rate * 2 * ms, 1000)

SilenceFrames(sil, ms) == IntDiv(sil, ms)

\* Fault: the constructor accepts any frame duration.
ChunkMsAllowed_any(ms) == TRUE

\* assert self.chunk_ms in (10, 20, 30)
ChunkMsAllowed(ms) == ms \in {10, 20, 30}

\* STTService.__init__
Construct ==
    /\ svc = "new"
    /\ server_url' = config.server_url
    /\ language' = config.language
    /\ sample_rate' = config.sample_rate
    /\ chunk_ms' = config.chunk_ms
    /\ IF ChunkMsAllowed(config.chunk_ms)
       THEN /\ frame_bytes' = FrameBytes(config.sample_rate, config.chunk_ms)
            /\ silence_ms' = config.silence_ms
            /\ silence_frames' = SilenceFrames(config.silence_ms, config.chunk_ms)
            /\ svc' = "ready"
       ELSE /\ svc' = "failed"
            /\ UNCHANGED << frame_bytes, silence_ms, silence_frames >>
    /\ UNCHANGED << config, device, audio_queue, is_listening, stream, pc,
                    captured >>
    /\ UNCHANGED localVars
    /\ UNCHANGED histVars
    /\ UNCHANGED ctlVars
    /\ UNCHANGED noteVars

\* ---------------------------------------------------------------- producer

\* queue.Queue() of line 50: maxsize 0, which is no limit.
QueueMaxsize == 0

\* Fault: the queue holds one RawBlock at most, and a second put waits for
\* the consumer.
PutBlocked_at_one(q) == Len(q) >= 1

\* audio_queue.put(block) has to wait for the consumer to make room.
PutBlocked(q) == QueueMaxsize > 0 /\ Len(q) >= QueueMaxsize

\* The microphone of the model can deliver one more RawBlock into a queue
\* that has not reached the bound of the model.
DeviceCanDeliver ==
    /\ Len(audio_queue) < MaxQueue
    /\ \E n \in device.lens : captured + n <= device.total

\* Fault: the callback also appends the block to the consumer's leftover
\* buffer.
AudioCallback_fills_leftover ==
    /\ stream = "open"
    /\ Len(audio_queue) < MaxQueue
    /\ \E n \in device.lens :
          /\ captured + n <= device.total
          /\ audio_queue' = Append(audio_queue, NewBlock(captured, n))
          /\ leftover_bytes' = leftover_bytes \o NewBlock(captured, n)
          /\ captured' = captured + n
    /\ dispatch_puts' = IF pc = "post" THEN dispatch_puts + 1 ELSE dispatch_puts
    /\ UNCHANGED << svc, is_listening, stream, pc, speech_buffer,
                    num_silent_frames, in_speech, audio_data, transcription,
                    prev_hi, stale_head, said, timed_out >>
    /\ UNCHANGED cfgVars
    /\ UNCHANGED histVars
    /\ UNCHANGED ctlVars

\* STTService._audio_callback: the capture thread puts bytes(indata), a
\* RawBlock of n bytes, into the queue.  It runs only while the stream is open.
AudioCallback ==
    /\ stream = "open"
    /\ ~PutBlocked(audio_queue)
    /\ Len(audio_queue) < MaxQueue
    /\ \E n \in device.lens :
          /\ captured + n <= device.total
          /\ audio_queue' = Append(audio_queue, NewBlock(captured, n))
          /\ captured' = captured + n
    /\ UNCHANGED << svc, is_listening, stream, pc >>
    /\ UNCHANGED cfgVars
    /\ UNCHANGED localVars
    /\ UNCHANGED histVars
    /\ UNCHANGED ctlVars
    /\ dispatch_puts' = IF pc = "post" THEN dispatch_puts + 1 ELSE dispatch_puts
    /\ UNCHANGED << prev_hi, stale_head, said, timed_out >>

\* A call of listen_infinite has begun and has not yet returned or raised.
InProgress ==
    pc \in {"called", "enter", "while", "get", "frames", "transcribe", "post",
            "finally"}

\* STTService.stop_listening, from any thread at any time.
StopListening ==
    /\ svc = "ready"
    /\ is_listening' = FALSE
    /\ stop_requested' = (stop_requested \/ InProgress)
    /\ UNCHANGED << svc, audio_queue, stream, pc, captured, response, cause,
                    late_waits >>
    /\ UNCHANGED cfgVars
    /\ UNCHANGED localVars
    /\ UNCHANGED histVars
    /\ UNCHANGED noteVars

\* ---------------------------------------------------------------- consumer

\* Fault: the buffers live on the service object and outlast an invocation.
FreshLocals_kept ==
    [leftover |-> leftover_bytes, buf |-> speech_buffer,
     n |-> num_silent_frames, insp |-> in_speech]

\* The locals of an invocation as lines 76-84 bind them; nothing of an
\* earlier invocation is in them.
FreshLocals == [leftover |-> << >>, buf |-> << >>, n |-> 0, insp |-> FALSE]

\* listen_infinite is called: a fresh invocation (its locals are not bound
\* yet, the histories of the session start empty).  Line 65 has not run yet:
\* another thread can run between the call and the first statement.
ListenInfinite ==
    /\ svc = "ready"
    /\ pc \in {"idle", "done", "raised"}
    /\ pc' = "called"
    /\ leftover_bytes' = FreshLocals.leftover
    /\ speech_buffer' = FreshLocals.buf
    /\ num_silent_frames' = FreshLocals.n
    /\ in_speech' = FreshLocals.insp
    /\ audio_data' = << >>
    /\ transcription' = ""
    /\ consumed' = << >>
    /\ classified' = << >>
    /\ segments' = << >>
    /\ posts' = << >>
    /\ reported' = 0
    /\ response' = "none"
    /\ cause' = "none"
    /\ stop_requested' = FALSE
    /\ late_waits' = 0
    /\ UNCHANGED << svc, audio_queue, is_listening, stream, captured >>
    /\ UNCHANGED cfgVars
    /\ prev_hi' = IF consumed = << >> THEN prev_hi ELSE consumed[Len(consumed)]
    /\ stale_head' = (audio_queue # << >>)
    /\ dispatch_puts' = 0
    /\ said' = ""
    /\ timed_out' = FALSE

\* self.is_listening = True (line 65)
SetListening ==
    /\ pc = "called"
    /\ is_listening' = TRUE
    /\ pc' = "enter"
    /\ UNCHANGED << svc, audio_queue, stream, captured >>
    /\ UNCHANGED cfgVars
    /\ UNCHANGED localVars
    /\ UNCHANGED histVars
    /\ UNCHANGED ctlVars
    /\ UNCHANGED noteVars

\* The with statement opens the input stream; lines 76-84 bind the locals.
OpenStream ==
    /\ pc = "enter"
    /\ stream' = "open"
    /\ leftover_bytes' = FreshLocals.leftover
    /\ speech_buffer' = FreshLocals.buf
    /\ num_silent_frames' = FreshLocals.n
    /\ in_speech' = FreshLocals.insp
    /\ pc' = "while"
    /\ UNCHANGED << svc, audio_queue, is_listening, audio_data, transcription,
                    captured >>
    /\ UNCHANGED cfgVars
    /\ UNCHANGED histVars
    /\ UNCHANGED ctlVars
    /\ UNCHANGED noteVars

\* Fault: the failure to open the device is swallowed and the loop is entered.
OnOpenFailure_swallowed == "while"

\* Where an exception of sd.InputStream(...) takes the consumer: the with
\* statement of line 67 is outside the try, so it leaves listen_infinite.
OnOpenFailure == "raised"

\* sd.InputStream(...) raises (no device): the exception leaves
\* listen_infinite before the try statement is entered.
OpenStreamFails ==
    /\ pc = "enter"
    /\ pc' = OnOpenFailure
    /\ cause' = "device"
    /\ UNCHANGED << svc, audio_queue, is_listening, stream, captured, response,
                    stop_requested, late_waits >>
    /\ UNCHANGED cfgVars
    /\ UNCHANGED localVars
    /\ UNCHANGED histVars
    /\ UNCHANGED noteVars

\* Fault: the loop does not look at the flag.
LoopTest_ignores_flag(flag) == "get"

\* The test of line 87: into the body, or out of the loop to the finally.
LoopTest(flag) == IF flag THEN "get" ELSE "finally"

\* while self.is_listening
WhileListening ==
    /\ pc = "while"
    /\ pc' = LoopTest(is_listening)
    /\ cause' = IF LoopTest(is_listening) = "finally" THEN "stop" ELSE cause
    /\ UNCHANGED << svc, audio_queue, is_listening, stream, captured, response,
                    stop_requested, late_waits >>
    /\ UNCHANGED cfgVars
    /\ UNCHANGED localVars
    /\ UNCHANGED histVars
    /\ timed_out' = FALSE
    /\ UNCHANGED << prev_hi, stale_head, dispatch_puts, said >>

\* The count of queue waits that ended while the flag was already cleared
\* (the count stops at two).
LateWait(n) == IF ~is_listening /\ n < 2 THEN n + 1 ELSE n

\* Fault: the newest RawBlock is taken first.
Dequeue_newest(q) == [data |-> q[Len(q)], rest |-> SubSeq(q, 1, Len(q) - 1)]

\* audio_queue.get() on a queue that is not empty: the oldest RawBlock, and
\* the queue without it.
Dequeue(q) == [data |-> Head(q), rest |-> Tail(q)]

\* data = self.audio_queue.get(timeout=1.0); leftover_bytes += data
QueueGet ==
    /\ pc = "get"
    /\ audio_queue # << >>
    /\ audio_queue' = Dequeue(audio_queue).rest
    /\ leftover_bytes' = leftover_bytes \o Dequeue(audio_queue).data
    /\ consumed' = consumed \o Dequeue(audio_queue).data
    /\ pc' = "frames"
    /\ late_waits' = LateWait(late_waits)
    /\ UNCHANGED << svc, is_listening, stream, speech_buffer,
                    num_silent_frames, in_speech, audio_data, transcription,
                    captured, classified, segments, posts, reported, response,
                    cause, stop_requested >>
    /\ UNCHANGED cfgVars
    /\ stale_head' = FALSE
    /\ UNCHANGED << prev_hi, dispatch_puts, said, timed_out >>

\* Fault: a timeout throws the leftover bytes away.
QueueEmpty_drops_leftover ==
    /\ pc = "get"
    /\ audio_queue = << >>
    /\ pc' = "while"
    /\ late_waits' = LateWait(late_waits)
    /\ leftover_bytes' = << >>
    /\ timed_out' = TRUE
    /\ UNCHANGED << svc, audio_queue, is_listening, stream, captured, response,
                    cause, stop_requested, speech_buffer, num_silent_frames,
                    in_speech, audio_data, transcription, prev_hi,
                    stale_head, dispatch_puts, said >>
    /\ UNCHANGED cfgVars
    /\ UNCHANGED histVars

\* except queue.Empty: continue
QueueEmpty ==
    /\ pc = "get"
    /\ audio_queue = << >>
    /\ pc' = "while"
    /\ late_waits' = LateWait(late_waits)
    /\ UNCHANGED << svc, audio_queue, is_listening, stream, captured, response,
                    cause, stop_requested >>
    /\ UNCHANGED cfgVars
    /\ UNCHANGED localVars
    /\ UNCHANGED histVars
    /\ timed_out' = TRUE
    /\ UNCHANGED << prev_hi, stale_head, dispatch_puts, said >>

\* Faults of the frame loop's test: any byte at all is taken for a frame;
\* a buffer holding exactly one frame is left unsliced.
HasFrame_any(leftover) == Len(leftover) > 0

HasFrame_strict(leftover) == Len(leftover) > frame_bytes

\* while len(leftover_bytes) >= self.frame_bytes
HasFrame(leftover) == Len(leftover) >= frame_bytes

\* frame = leftover_bytes[:self.frame_bytes]
TakeFrame(leftover) ==
    SubSeq(leftover, 1, IF frame_bytes < Len(leftover) THEN frame_bytes
                        ELSE Len(leftover))

\* Fault: the remainder starts one byte late.
DropFrame_skip(leftover) == SubSeq(leftover, frame_bytes + 2, Len(leftover))

\* leftover_bytes = leftover_bytes[self.frame_bytes:]
DropFrame(leftover) == SubSeq(leftover, frame_bytes + 1, Len(leftover))

\* Fault: the threshold test is strict.
ShouldFinalize_gt(n) == n > silence_frames

\* if num_silent_frames >= self.silence_frames
ShouldFinalize(n) == n >= silence_frames

\* Fault: the speech branch forgets to reset the silence counter.
OnSpeech_keeps_count(buf, insp, n, frame) ==
    [buf |-> Append(buf, frame), insp |-> TRUE, n |-> n]

\* The speech branch, lines 105-108: (speech_buffer, in_speech,
\* num_silent_frames) after a frame classified as speech.
OnSpeech(buf, insp, n, frame) ==
    [buf |-> Append(buf, frame), insp |-> TRUE, n |-> 0]

\* Fault: a silence frame is buffered whatever the state.
OnSilence_buffers_idle(buf, insp, n, frame) ==
    IF insp
    THEN [buf |-> Append(buf, frame), insp |-> TRUE, n |-> n + 1]
    ELSE [buf |-> Append(buf, frame), insp |-> FALSE, n |-> n]

\* Fault: a silence frame opens a segment, as a speech frame does.
OnSilence_opens_segment(buf, insp, n, frame) ==
    [buf |-> Append(buf, frame), insp |-> TRUE, n |-> n + 1]

\* The silence branch, lines 110-129, up to the test of line 116.
OnSilence(buf, insp, n, frame) ==
    IF insp
    THEN [buf |-> Append(buf, frame), insp |-> TRUE, n |-> n + 1]
    ELSE [buf |-> buf, insp |-> FALSE, n |-> n]

\* Fault: the reset leaves the dispatched frames in the buffer.
ResetSegment_keeps_buffer(buf, insp, n) ==
    [buf |-> buf, insp |-> FALSE, n |-> 0]

\* Fault: the machine stays InSpeech after a dispatch.
ResetSegment_stays_in_speech(buf, insp, n) ==
    [buf |-> << >>, insp |-> TRUE, n |-> 0]

\* The reset after a dispatch, lines 124-126.
ResetSegment(buf, insp, n) == [buf |-> << >>, insp |-> FALSE, n |-> 0]

\* The sample rates webrtcvad takes: 8, 16, 32 and 48 kHz, and the same on
\* the scale of the small configurations of Configs.
VadRates == {50, 100, 200, 300} \cup RealRates

\* vad.is_speech(frame, self.sample_rate) answers only for a frame of 10, 20
\* or 30 ms at a rate it supports; for any other it raises.
VadAccepts(frame) ==
    /\ sample_rate \in VadRates
    /\ \E ms \in {10, 20, 30} : Len(frame) * 1000 = sample_rate * 2 * ms

\* The classifier raises on the frame sliced at lines 98-99: the exception is
\* caught at line 133 and the loop is left.
FrameRejected ==
    LET frame == TakeFrame(leftover_bytes)
    IN  /\ leftover_bytes' = DropFrame(leftover_bytes)
        /\ classified' = Append(classified,
                            [frame |-> frame, speech |-> FALSE,
                             in_speech |-> in_speech, rejected |-> TRUE])
        /\ pc' = "finally"
        /\ cause' = "error"
        /\ UNCHANGED << speech_buffer, in_speech, num_silent_frames,
                        audio_data, segments >>

\* One turn of the inner while loop, lines 97-119: slice a frame, classify
\* it, update the segment state and, on finalization, call transcribe_chunk.
\* The result of the dispatch before it, which nothing reads any more, is
\* forgotten.
FrameStep ==
    /\ pc = "frames"
    /\ IF HasFrame(leftover_bytes) /\ ~VadAccepts(TakeFrame(leftover_bytes))
       THEN FrameRejected
       ELSE IF HasFrame(leftover_bytes)
       THEN \E is_speech \in BOOLEAN :
              LET frame == TakeFrame(leftover_bytes)
                  nxt == IF is_speech
                         THEN OnSpeech(speech_buffer, in_speech,
                                       num_silent_frames, frame)
                         ELSE OnSilence(speech_buffer, in_speech,
                                        num_silent_frames, frame)
                  finalize == ~is_speech /\ in_speech /\ ShouldFinalize(nxt.n)
              IN  /\ leftover_bytes' = DropFrame(leftover_bytes)
                  /\ classified' = Append(classified,
                                     [frame |-> frame,
                                      speech |-> is_speech,
                                      in_speech |-> in_speech,
                                      rejected |-> FALSE])
                  /\ speech_buffer' = nxt.buf
                  /\ in_speech' = nxt.insp
                  /\ num_silent_frames' = nxt.n
                  /\ IF finalize
                     THEN /\ audio_data' = Join(nxt.buf)
                          /\ segments' = Append(segments,
                                           [audio |-> Join(nxt.buf),
                                            at |-> Len(classified) + 1])
                          /\ pc' = "transcribe"
                     ELSE UNCHANGED << audio_data, segments, pc >>
                  /\ UNCHANGED cause
       ELSE /\ pc' = "while"
            /\ UNCHANGED << leftover_bytes, classified, speech_buffer,
                            in_speech, num_silent_frames, audio_data,
                            segments, cause >>
    /\ response' = "none"
    /\ transcription' = ""
    /\ said' = ""
    /\ UNCHANGED << svc, audio_queue, is_listening, stream,
                    captured, consumed, posts, reported,
                    stop_requested, late_waits >>
    /\ UNCHANGED cfgVars
    /\ UNCHANGED << prev_hi, stale_head, dispatch_puts, timed_out >>

\* Fault: the header declares whole 16-bit samples only, so the odd last
\* byte of the data is not counted.
ConvertPcmToWav_whole_samples(pcm) ==
    [nchannels |-> 1, sampwidth |-> 2, framerate |-> sample_rate,
     datalength |-> 2 * (Len(pcm) \div 2), data |-> pcm]

\* _convert_pcm_to_wav: one channel, 16-bit samples, self.sample_rate, and
\* the PCM bytes as the data chunk.
ConvertPcmToWav(pcm) ==
    [nchannels |-> 1, sampwidth |-> 2, framerate |-> sample_rate,
     datalength |-> Len(pcm), data |-> pcm]

\* Fault: the POST is handed to a worker and the frame loop goes on.
OnPost_async == "frames"

\* Where the consumer is once the POST is sent: inside requests.post, which
\* returns when the server has answered or the call has failed.
OnPost == "post"

\* Fault: transcribe_chunk falls back to automatic language detection and
\* keeps that choice on the service.
TranscribeChunk_sets_language ==
    /\ pc = "transcribe"
    /\ posts' = Append(posts, ConvertPcmToWav(audio_data))
    /\ pc' = OnPost
    /\ language' = "auto"
    /\ UNCHANGED << svc, audio_queue, is_listening, stream, captured,
                    consumed, classified, segments, reported >>
    /\ UNCHANGED << config, device, server_url, sample_rate, chunk_ms,
                    frame_bytes, silence_ms, silence_frames >>
    /\ UNCHANGED localVars
    /\ UNCHANGED ctlVars
    /\ UNCHANGED noteVars

\* transcribe_chunk, lines 143-154: build the WAV and send the POST.
TranscribeChunk ==
    /\ pc = "transcribe"
    /\ posts' = Append(posts, ConvertPcmToWav(audio_data))
    /\ pc' = OnPost
    /\ UNCHANGED << svc, audio_queue, is_listening, stream, captured,
                    consumed, classified, segments, reported >>
    /\ UNCHANGED cfgVars
    /\ UNCHANGED localVars
    /\ UNCHANGED ctlVars
    /\ UNCHANGED noteVars

\* Fault: a failed dispatch is sent again.
AfterDispatch_retry(r) ==
    IF r = NonString THEN "finally"
    ELSE IF r = Sentinel THEN "transcribe" ELSE "frames"

\* Where the consumer goes once transcribe_chunk has returned result r:
\* r.strip() raises for a text that is no string (caught at line 133);
\* otherwise the transcript is printed and the inner loop goes on.
AfterDispatch(r) == IF r = NonString THEN "finally" ELSE "frames"

\* What the server can do with a POST: the connection fails, the 300 s
\* timeout passes, the status is not 2xx, the body is not JSON, or a 2xx JSON
\* object comes back with a string text, without a text, or with a text that
\* is not a string.
Responses ==
    { "network_error", "timeout", "http_error", "bad_json",
      "text", "no_text", "text_not_str" }

\* requests.post raises (line 154).
PostRaises(resp) == resp \in {"network_error", "timeout"}

\* resp.raise_for_status() raises (line 155).
StatusRaises(resp) == resp = "http_error"

\* resp.json() raises (line 156).
JsonRaises(resp) == resp = "bad_json"

\* result_json.get("text", "") (line 157).
TextOf(resp) ==
    IF resp = "no_text" THEN ""
    ELSE IF resp = "text_not_str" THEN NonString
    ELSE " hello "

\* An exception that leaves transcribe_chunk.
Raised == "<raised>"

\* Fault: raise_for_status is called outside the try statement.
TranscribeResult_status_uncaught(resp) ==
    IF StatusRaises(resp) THEN Raised
    ELSE IF PostRaises(resp) \/ JsonRaises(resp) THEN Sentinel
    ELSE TextOf(resp)

\* What transcribe_chunk hands to its caller, lines 153-160: every exception
\* of the try block is caught and the sentinel returned in its place.
TranscribeResult(resp) ==
    IF PostRaises(resp) \/ StatusRaises(resp) \/ JsonRaises(resp)
    THEN Sentinel
    ELSE TextOf(resp)

\* Fault: the transcript is printed as it came.
Strip_nothing(text) == text

\* transcription.strip() (lines 120-121) for the texts of Results: blanks at
\* both ends are removed.
Strip(text) == IF text = " hello " THEN "hello" ELSE text

\* requests.post returns or raises (lines 154-160), then lines 120-126.
PostReturn ==
    /\ pc = "post"
    /\ \E resp \in Responses :
          LET r == TranscribeResult(resp)
              nxt == ResetSegment(speech_buffer, in_speech, num_silent_frames)
          IN  /\ response' = resp
              /\ transcription' = r
              /\ pc' = AfterDispatch(r)
              /\ IF AfterDispatch(r) = "frames"
                 THEN /\ reported' = reported + 1
                      /\ said' = Strip(r)
                      /\ speech_buffer' = nxt.buf
                      /\ in_speech' = nxt.insp
                      /\ num_silent_frames' = nxt.n
                      /\ UNCHANGED cause
                 ELSE /\ cause' = "error"
                      /\ UNCHANGED << reported, said, speech_buffer,
                                      in_speech, num_silent_frames >>
    /\ UNCHANGED << svc, audio_queue, is_listening, stream, leftover_bytes,
                    audio_data, captured, consumed, classified,
                    segments, posts, stop_requested, late_waits >>
    /\ UNCHANGED cfgVars
    /\ dispatch_puts' = 0
    /\ UNCHANGED << prev_hi, stale_head, timed_out >>

\* Fault: the stream is left open when the with block is left.
WithExit_leaves_open == "open"

\* The input stream once the with statement of line 67 has been left.
WithExit == "closed"

\* finally: self.is_listening = False; then the with statement closes the
\* stream and listen_infinite returns.
Finally ==
    /\ pc = "finally"
    /\ is_listening' = FALSE
    /\ stream' = WithExit
    /\ pc' = "done"
    /\ UNCHANGED << svc, audio_queue, captured >>
    /\ UNCHANGED cfgVars
    /\ UNCHANGED localVars
    /\ UNCHANGED histVars
    /\ UNCHANGED ctlVars
    /\ stale_head' = FALSE
    /\ UNCHANGED << prev_hi, dispatch_puts, said, timed_out >>

\* Ctrl-C reaches the caller's thread.  Inside the try statement it is
\* caught at line 131 and the finally follows; before the try (lines 65-73)
\* it leaves listen_infinite as an exception.
KeyboardInterrupt ==
    /\ pc \in {"called", "enter", "while", "get", "frames", "transcribe",
               "post"}
    /\ pc' = IF pc \in {"called", "enter"} THEN "raised" ELSE "finally"
    /\ cause' = "interrupt"
    /\ UNCHANGED << svc, audio_queue, is_listening, stream, captured, response,
                    stop_requested, late_waits >>
    /\ UNCHANGED cfgVars
    /\ UNCHANGED localVars
    /\ UNCHANGED histVars
    /\ dispatch_puts' = 0
    /\ timed_out' = FALSE
    /\ UNCHANGED << prev_hi, stale_head, said >>

\* The steps of the caller's thread inside listen_infinite.
ConsumerStep ==
    \/ SetListening
    \/ OpenStream
    \/ OpenStreamFails
    \/ WhileListening
    \/ QueueGet
    \/ QueueEmpty
    \/ FrameStep
    \/ TranscribeChunk
    \/ PostReturn
    \/ Finally

Next ==
    \/ Construct
    \/ AudioCallback
    \/ StopListening
    \/ ListenInfinite
    \/ SetListening
    \/ KeyboardInterrupt
    \/ OpenStream
    \/ OpenStreamFails
    \/ WhileListening
    \/ QueueGet
    \/ QueueEmpty
    \/ FrameStep
    \/ TranscribeChunk
    \/ PostReturn
    \/ Finally

Spec == Init /\ [][Next]_vars

\* The same program, run on the frame scenarios.
ScenarioSpec == ScenarioInit /\ [][Next]_vars

\* The same program, run with frames of several bytes.
WideFrameSpec == WideFrameInit /\ [][Next]_vars

\* The same program when the caller's thread keeps running: a queue wait
\* ends within its timeout of one second and every dispatch call returns.
FairSpec == Init /\ [][Next]_vars /\ WF_vars(ConsumerStep)

\* ------------------------------------------------------- reading a history

\* The consumer is inside the while loop of line 87, between two frames.
InLoop == pc \in {"frames", "while", "get"}

\* The frames a..b handed to the classifier, in order.
FramesOf(a, b) == [j \in 1..(b - a + 1) |-> classified[a + j - 1].frame]

\* The classifier's answers of this session, in order.
Flags == [i \in 1..Len(classified) |-> classified[i].speech]

\* The elements of a sequence.
Range(seq) == { seq[i] : i \in 1..Len(seq) }

\* Frame i finalized a segment.
Emitted(i) == \E k \in 1..Len(segments) : segments[k].at = i

\* The silence frames in a row that end with frame i.
RECURSIVE SilenceRun(_)
SilenceRun(i) ==
    IF i = 0 \/ classified[i].speech THEN 0 ELSE 1 + SilenceRun(i - 1)

\* The last frame up to i that took the state from Idle to InSpeech (0: none).
RECURSIVE SegStart(_)
SegStart(i) ==
    IF i = 0 THEN 0
    ELSE IF classified[i].speech /\ ~classified[i].in_speech THEN i
    ELSE SegStart(i - 1)

\* ------------------------------------------------------------------ claims

\* C1: every frame handed to the voice-activity classifier is exactly
\* frame_bytes long, whatever the lengths of the RawBlocks dequeued.
C1_FrameLength ==
    \A i \in 1..Len(classified) : Len(classified[i].frame) = frame_bytes

\* C1's case: two-byte frames were cut from blocks that left an odd byte over.
C1_Witness ==
    /\ frame_bytes = 2
    /\ Len(classified) >= 2
    /\ Len(leftover_bytes) = 1

\* C2: the frames produced so far, in order, followed by the leftover buffer
\* are exactly the bytes dequeued so far in the session, in dequeue order.
C2_BytesConserved ==
    Join(FramesOf(1, Len(classified))) \o leftover_bytes = consumed

\* C2's case: five bytes dequeued, two two-byte frames cut, one byte left.
C2_Witness ==
    /\ frame_bytes = 2
    /\ Len(consumed) = 5
    /\ Len(classified) = 2
    /\ Len(leftover_bytes) = 1

\* C3: once the blocks dequeued so far are processed, if their total length
\* is a multiple of frame_bytes then exactly total/frame_bytes frames were
\* produced and the leftover buffer is empty.
C3_AlignedTotal ==
    (/\ pc \in {"while", "get"}
     /\ svc = "ready"
     /\ Len(consumed) % frame_bytes = 0)
        => /\ Len(classified) = Len(consumed) \div frame_bytes
           /\ leftover_bytes = << >>

\* C3's case: six bytes, dequeued in blocks shorter than a three-byte frame,
\* gave two frames and an empty leftover buffer.
C3_Witness ==
    /\ pc = "while"
    /\ frame_bytes = 3
    /\ device.lens = 0..2
    /\ Len(consumed) = 6
    /\ Len(classified) = 2
    /\ leftover_bytes = << >>

\* C4: a frame classified as silence while the state is Idle leaves the state
\* Idle, is not buffered and finalizes nothing; a session that has heard
\* only silence has emitted no segment, posted nothing and is Idle.
C4_IdleSilence ==
    /\ \A i \in 1..Len(classified) :
          (~classified[i].speech /\ ~classified[i].in_speech) =>
             /\ ~Emitted(i)
             /\ classified[i].frame \notin Range(speech_buffer)
             /\ IF i < Len(classified) THEN ~classified[i + 1].in_speech
                ELSE ~in_speech
    /\ (\A i \in 1..Len(classified) : ~classified[i].speech) =>
          /\ segments = << >>
          /\ posts = << >>
          /\ speech_buffer = << >>
          /\ ~in_speech

\* C4's case: five silence frames in a row from the start of the session.
C4_Witness ==
    /\ Len(classified) = 5
    /\ \A i \in 1..5 : ~classified[i].speech
    /\ segments = << >>

LeadingSilenceScenario ==
    [i \in 1..(6 + silence_frames) |-> i \in 3..6]

\* The part of C6 that holds of every session: each emitted segment starts
\* with a frame classified as speech, and no frame classified as silence in
\* state Idle has a byte in any emitted segment.
SegmentsSkipLeadingSilence ==
    /\ \A k \in 1..Len(segments) :
          \E i \in 1..segments[k].at :
             /\ classified[i].speech
             /\ classified[i].frame = SubSeq(segments[k].audio, 1, frame_bytes)
    /\ \A i \in 1..Len(classified) :
          (~classified[i].speech /\ ~classified[i].in_speech) =>
             \A k \in 1..Len(segments) :
                Range(classified[i].frame) \cap Range(segments[k].audio) = {}

\* What the scenario of C6 yields: one segment, of the 4 speech frames and
\* the silence_frames trailing frames, and the state Idle once the dispatch
\* has returned.
LeadingSilenceOutcome ==
    /\ Len(segments) = 1
    /\ segments[1].audio = Join(FramesOf(3, 6 + silence_frames))
    /\ Len(segments[1].audio) = (4 + silence_frames) * frame_bytes
    /\ InLoop => (~in_speech /\ speech_buffer = << >>)

\* C6 as stated: segments start with speech and hold no leading silence, and
\* silence x2, speech x4, silence x silence_frames yields exactly one segment
\* of 4 + silence_frames frames, whatever silence_frames is.
C6_Original ==
    /\ SegmentsSkipLeadingSilence
    /\ (svc = "ready" /\ silence_frames >= 0 /\ Flags = LeadingSilenceScenario)
          => LeadingSilenceOutcome

\* C6, amended: the same, the scenario taken with silence_frames >= 1 (with
\* silence_frames = 0 the scenario has no silence frame to finalize on and
\* the four speech frames stay buffered).
C6_LeadingSilenceDropped ==
    /\ SegmentsSkipLeadingSilence
    /\ (svc = "ready" /\ silence_frames >= 1 /\ Flags = LeadingSilenceScenario)
          => LeadingSilenceOutcome

\* C6's case: silence x2, speech x4, silence x2 with silence_frames = 2, the
\* dispatch returned.
C6_Witness ==
    /\ silence_frames = 2
    /\ Flags = << FALSE, FALSE, TRUE, TRUE, TRUE, TRUE, FALSE, FALSE >>
    /\ Len(segments) = 1
    /\ Len(segments[1].audio) = 6 * frame_bytes
    /\ pc = "frames"
    /\ ~in_speech

\* The classifier's answers of the scenario speech x3,
\* silence x (silence_frames - 1), speech x2, silence x silence_frames.
ShortPauseScenario ==
    [i \in 1..(4 + 2 * silence_frames) |->
        i \in 1..3 \/ i \in (3 + silence_frames)..(4 + silence_frames)]

\* C7: a run of silence frames that a speech frame ends in state InSpeech is
\* shorter than silence_frames and none of its frames emitted a segment; the
\* buffer of an open segment is every frame since the segment began, the
\* silence frames included; after a speech frame the silence count is 0; and
\* speech x3, silence x (silence_frames - 1), speech x2,
\* silence x silence_frames yields exactly one segment, of all those frames
\* in order.
C7_ShortPauseAbsorbed ==
    /\ \A i \in 1..Len(classified) :
          (classified[i].speech /\ classified[i].in_speech) =>
             /\ SilenceRun(i - 1) >= 1 => SilenceRun(i - 1) < silence_frames
             /\ \A j \in (i - SilenceRun(i - 1))..i : ~Emitted(j)
    /\ (InLoop /\ in_speech) =>
          /\ SegStart(Len(classified)) >= 1
          /\ speech_buffer
                = FramesOf(SegStart(Len(classified)), Len(classified))
    /\ (InLoop /\ Len(classified) > 0 /\ classified[Len(classified)].speech)
          => num_silent_frames = 0
    /\ (svc = "ready" /\ silence_frames >= 1 /\ Flags = ShortPauseScenario) =>
          /\ Len(segments) = 1
          /\ segments[1].audio = Join(FramesOf(1, Len(classified)))

\* C7's case: speech x3, silence x1, speech x2, silence x2 with
\* silence_frames = 2 gave one segment of all eight frames.
C7_Witness ==
    /\ silence_frames = 2
    /\ Flags = << TRUE, TRUE, TRUE, FALSE, TRUE, TRUE, FALSE, FALSE >>
    /\ Len(segments) = 1
    /\ Len(segments[1].audio) = 8 * frame_bytes

\* C8 as stated: every emitted segment has at most silence_frames silence
\* frames after its last speech frame (read here on the configurations with
\* a positive silence_ms only, which is all it takes to refute it).
C8_Original ==
    silence_ms > 0 =>
       \A k \in 1..Len(segments) : SilenceRun(segments[k].at) <= silence_frames

\* C8, amended: every emitted segment has at least one and at most
\* max(1, silence_frames) silence frames after its last speech frame: a
\* segment is finalized by a silence frame, so with silence_frames < 1
\* (silence_ms < chunk_ms) it still ends with one.
C8_TrailingSilenceBound ==
    \A k \in 1..Len(segments) :
       /\ SilenceRun(segments[k].at) >= 1
       /\ SilenceRun(segments[k].at)
             <= (IF silence_frames >= 1 THEN silence_frames ELSE 1)

\* C8's case: silence_ms = 5 < chunk_ms = 10 gives silence_frames = 0, and a
\* segment was emitted with one trailing silence frame.
C8_Witness ==
    /\ silence_ms > 0
    /\ silence_frames = 0
    /\ Len(segments) >= 1
    /\ SilenceRun(segments[1].at) = 1

\* C9: every emitted segment is the frames of the classified stream from the
\* speech frame that took the state from Idle to InSpeech through the
\* finalizing silence frame, each once and in arrival order, and a segment
\* starts after the frame that finalized the segment before it.
C9_SegmentsContiguous ==
    \A k \in 1..Len(segments) :
       LET last == segments[k].at
           first == SegStart(last)
       IN  /\ 1 <= first
           /\ first < last
           /\ last <= Len(classified)
           /\ segments[k].audio = Join(FramesOf(first, last))
           /\ k > 1 => segments[k - 1].at < first

\* C9's case: two segments in one session, with a frame of idle silence
\* between them.
C9_Witness ==
    /\ Len(segments) = 2
    /\ SegStart(segments[2].at) > segments[1].at + 1
    /\ segments[2].audio # segments[1].audio

\* C10: every finalized segment is posted exactly once, whatever the outcome
\* of the dispatch: the POSTs made are the finalized segments, one each and
\* in order (the last segment's POST is still to be sent only while
\* transcribe_chunk is being entered, or if Ctrl-C ended the session there).
C10_OneDispatchPerSegment ==
    /\ \/ Len(posts) = Len(segments) /\ pc # "transcribe"
       \/ Len(posts) = Len(segments) - 1
             /\ (pc = "transcribe" \/ cause = "interrupt")
    /\ \A k \in 1..Len(posts) : posts[k].data = segments[k].audio

\* C10's case: two segments were finalized and each was posted once; the
\* second dispatch failed (the sentinel came back) and the loop goes on.
C10_Witness ==
    /\ Len(segments) = 2
    /\ Len(posts) = 2
    /\ reported = 2
    /\ transcription = Sentinel
    /\ pc = "frames"

\* ----------------------------------------------------------------- dispatch

\* C11: transcribe_chunk never raises to its caller: whatever the server did,
\* the call handed back a value, and for a network error, a timeout, a
\* non-2xx status or a body that is not JSON that value is the sentinel.
C11_NeverRaises ==
    response # "none" =>
        /\ transcription \in Results
        /\ response \in {"network_error", "timeout", "http_error", "bad_json"}
              => transcription = Sentinel

\* C11's case: the server answered with an error status, transcribe_chunk
\* returned the sentinel and the consumer is back in its frame loop.
C11_Witness ==
    /\ response = "http_error"
    /\ transcription = Sentinel
    /\ pc = "frames"
    /\ Len(posts) = 1

\* C12: a 2xx JSON response whose text field is missing or is not a string
\* gives the sentinel as the result of the dispatch.
C12_MissingTextIsFailure ==
    response \in {"no_text", "text_not_str"} => transcription = Sentinel

\* The dispatch failures of C13: every response but a 2xx JSON object with a
\* string text.
DispatchFailures == Responses \ {"text"}

\* C13: no dispatch failure ends the loop: the step in which a failed
\* dispatch comes back leaves the listening flag as it was, resets the
\* segment state to Idle with an empty buffer and returns to the frame loop.
C13_FailureKeepsLoop ==
    [][ (pc = "post" /\ pc' # "post" /\ cause' # "interrupt"
           /\ response' \in DispatchFailures)
        => /\ pc' = "frames"
           /\ is_listening' = is_listening
           /\ speech_buffer' = << >>
           /\ in_speech' = FALSE
           /\ num_silent_frames' = 0 ]_vars

\* ------------------------------------------------------------ cancellation

\* listen_infinite has handed control back: it returned or it raised.
Returned == pc \in {"done", "raised"}

\* C14: whenever stop_listening has run during an invocation of
\* listen_infinite, at whatever point of it, the loop eventually exits and
\* the invocation returns (every dispatch call returns and the caller's
\* thread keeps running: FairSpec).
C14_StopEndsLoop == stop_requested ~> Returned

\* C15: once the flag has been cleared while the loop runs, the consumer
\* completes at most one more queue wait, and after that wait it never waits
\* on the queue again in this invocation.
C15_AtMostOneLateWait ==
    /\ late_waits <= 1
    /\ late_waits = 1 => pc # "get"

\* C15's case: stop_listening ran while the consumer waited on the queue; the
\* wait ended with a RawBlock, its frames were classified, and the loop ended.
C15_Witness ==
    /\ late_waits = 1
    /\ stop_requested
    /\ cause = "stop"
    /\ pc = "done"
    /\ Len(classified) >= 1

\* C16: the input stream is open only while an invocation of listen_infinite
\* is inside its with block: it is closed before line 67, and closed once
\* the invocation has finished, by a stop, an exception or Ctrl-C.
C16_StreamClosedAfterReturn ==
    stream = "open" =>
        pc \in {"while", "get", "frames", "transcribe", "post", "finally"}

\* C16's case: Ctrl-C ended a session that had consumed audio; the
\* invocation has returned and the stream is closed.
C16_Witness ==
    /\ pc = "done"
    /\ cause = "interrupt"
    /\ consumed # << >>
    /\ stream = "closed"

\* C17: if the device cannot be opened, the invocation ends by raising, and
\* no RawBlock was dequeued, no frame classified and no POST made.
C17_OpenFailureRaises ==
    cause = "device" =>
        /\ pc = "raised"
        /\ stream = "closed"
        /\ consumed = << >>
        /\ classified = << >>
        /\ posts = << >>

\* C17's case: the device failed to open in a second invocation, with
\* RawBlocks of the first still waiting in the queue; none was taken.
C17_Witness ==
    /\ cause = "device"
    /\ pc = "raised"
    /\ audio_queue # << >>

\* C18: an invocation that met a fatal error inside its loop does not end
\* with a normal return: once it is over, it is over by raising.
C18_FatalErrorReported ==
    (cause = "error" /\ ~InProgress) => pc = "raised"

\* ------------------------------------------------------------ construction

\* C19: the constructor fails exactly when chunk_ms is not 10, 20 or 30, and
\* on a service whose construction failed nothing is ever started.
C19_ChunkMsChecked ==
    svc # "new" =>
        /\ svc = "failed" <=> config.chunk_ms \notin {10, 20, 30}
        /\ svc = "failed" =>
              /\ pc = "idle"
              /\ ~is_listening
              /\ stream = "closed"
              /\ captured = 0

\* C19's case: construction with chunk_ms = 15 has failed.
C19_Witness ==
    /\ svc = "failed"
    /\ config.chunk_ms = 15

\* C20: construction with silence_ms <= 0 fails.
C20_SilenceMsChecked ==
    (svc # "new" /\ config.silence_ms <= 0) => svc = "failed"

\* ------------------------------------------------------- producer and queue

\* C21: the callback is never blocked by the consumer: whenever the stream
\* is open and the microphone has a RawBlock to deliver, whatever the
\* consumer is doing, the callback can put it into the queue and return.
C21_CallbackNeverBlocked ==
    (stream = "open" /\ DeviceCanDeliver) => ENABLED AudioCallback

\* C21's case: two RawBlocks were enqueued while the consumer was blocked in
\* one dispatch.
C21_Witness ==
    /\ pc = "post"
    /\ dispatch_puts = 2
    /\ Len(audio_queue) = 2

\* The consumer's side of the state, the flag and the device.
ConsumerState ==
    << leftover_bytes, speech_buffer, num_silent_frames, in_speech, audio_data,
       transcription, is_listening, stream, pc, classified, segments, posts,
       reported, said, consumed >>

\* C22: a step of the callback appends one RawBlock to the queue and changes
\* nothing else of the service: not the leftover buffer, the speech buffer,
\* the segment state, the silence count or the flag; nothing is classified,
\* converted or dispatched by it.
C22_CallbackOnlyEnqueues ==
    [][ Len(audio_queue') > Len(audio_queue)
        => /\ Len(audio_queue') = Len(audio_queue) + 1
           /\ SubSeq(audio_queue', 1, Len(audio_queue)) = audio_queue
           /\ UNCHANGED ConsumerState ]_vars

\* C22's case: the callback ran during a dispatch, while the consumer held a
\* segment in its speech buffer and bytes in its leftover buffer.
C22_Witness ==
    /\ pc = "post"
    /\ dispatch_puts = 1
    /\ speech_buffer # << >>
    /\ leftover_bytes # << >>
    /\ Join(speech_buffer) = audio_data

\* C23: the queue is FIFO and lossless.  The bytes dequeued in this session
\* followed by the bytes waiting in the queue are the bytes the device
\* delivered since the last byte of the earlier sessions, each once and in
\* order; a dequeue takes the oldest RawBlock whole and leaves the others.
C23_QueueFifoLossless ==
    /\ [](LET all == consumed \o Join(audio_queue)
          IN  /\ Len(all) = captured - prev_hi
              /\ \A i \in 1..Len(all) : all[i] = prev_hi + i)
    /\ [][ Len(audio_queue') < Len(audio_queue)
           => /\ audio_queue' = Tail(audio_queue)
              /\ consumed' = consumed \o Head(audio_queue) ]_vars

\* C23's case: two RawBlocks accumulated during a dispatch and the consumer
\* has since dequeued the first of them.
C23_Witness ==
    /\ Len(posts) = 1
    /\ reported = 1
    /\ Len(audio_queue) = 1
    /\ Len(consumed) >= 4
    /\ pc = "frames"

\* C24: stop_listening changes the listening flag and nothing else, a call
\* that finds the flag cleared changes nothing, and a call made while no
\* invocation of listen_infinite is in progress changes nothing at all.  (A
\* step that changes the flag and leaves the consumer where it is, is a step
\* of stop_listening.)
C24_StopIdempotent ==
    [][ (pc' = pc /\ is_listening' # is_listening)
        => /\ ~is_listening'
           /\ UNCHANGED << audio_queue, captured, stream, svc >>
           /\ UNCHANGED localVars
           /\ UNCHANGED histVars
           /\ UNCHANGED cfgVars
           /\ InProgress ]_vars

\* ------------------------------------------------------------- the session

\* The bytes of a sequence of frames.
BytesOf(frames) == Range(Join(frames))

\* The speech buffer holds a segment that line 116 has not finalized.
Unfinalized ==
    /\ in_speech
    /\ speech_buffer # << >>
    /\ segments = << >> \/ segments[Len(segments)].audio # Join(speech_buffer)

\* C25: a segment that is open when the session is cancelled is never
\* dispatched, and nothing an earlier invocation dequeued (its open segment
\* included) is in a buffer, a segment or a POST of a later invocation.
C25_CancelledSegmentDiscarded ==
    /\ BytesOf(speech_buffer) \subseteq Range(consumed)
    /\ \A b \in BytesOf(speech_buffer) \cup Range(leftover_bytes) : b > prev_hi
    /\ \A k \in 1..Len(segments) : \A b \in Range(segments[k].audio) : b > prev_hi
    /\ \A k \in 1..Len(posts) : \A b \in Range(posts[k].data) : b > prev_hi
    /\ (pc \in {"finally", "done"} /\ cause \in {"stop", "interrupt"}
          /\ Unfinalized)
         => \A k \in 1..Len(posts) :
               Range(posts[k].data) \cap BytesOf(speech_buffer) = {}

\* C25's case: stop_listening ended a session that had dispatched one
\* segment and was in the middle of the next one.
C25_Witness ==
    /\ pc = "done"
    /\ cause = "stop"
    /\ Unfinalized
    /\ Len(posts) = 1
    /\ prev_hi > 0

\* C26: each "You said" line is the result of the dispatch of the segment
\* just finalized, trimmed (the text of the response, or the sentinel), and
\* it is printed before the next segment is dispatched; a response with the
\* text hello is reported as "hello".
C26_ReportedIsDispatchResult ==
    /\ reported <= Len(posts)
    /\ Len(posts) <= reported + 1
    /\ reported < Len(posts) => pc \in {"post", "finally", "done"}
    /\ (reported >= 1 /\ reported = Len(posts)) =>
          /\ PostRaises(response) \/ StatusRaises(response)
                \/ JsonRaises(response) => said = Sentinel
          /\ response = "text" => said = "hello"
          /\ response = "no_text" => said = ""
          /\ response # "text_not_str"

\* C26's case: one finalizing sequence, one dispatch answered with the text
\* hello, one line reported.
C26_Witness ==
    /\ Len(segments) = 1
    /\ Len(posts) = 1
    /\ reported = 1
    /\ response = "text"
    /\ said = "hello"

\* The segment state after frame i: Idle after a finalization, InSpeech
\* after a speech frame, otherwise the state before the frame.
StateAfter(i) ==
    IF Emitted(i) THEN FALSE
    ELSE IF classified[i].speech THEN TRUE
    ELSE classified[i].in_speech

\* C27: the segment machine has no terminal state.  While the session goes
\* on, the state before each frame is the state the frame before it led to:
\* Idle after every finalization, InSpeech after every speech frame; and in
\* InSpeech a silence frame that completes silence_frames silence frames in
\* a row finalizes.
C27_NoTerminalState ==
    /\ \A i \in 1..(Len(classified) - 1) :
          classified[i + 1].in_speech = StateAfter(i)
    /\ (InLoop /\ classified # << >>) => in_speech = StateAfter(Len(classified))
    /\ \A i \in 1..Len(classified) :
          (classified[i].in_speech /\ ~classified[i].speech
             /\ ~classified[i].rejected /\ SilenceRun(i) >= silence_frames)
          => Emitted(i)

\* C27's case: three segments emitted and reported in one session, the
\* machine Idle again.
C27_Witness ==
    /\ Len(segments) = 3
    /\ reported = 3
    /\ ~in_speech
    /\ pc = "while"

\* ---------------------------------------------------------------- encoding

\* C28: for chunk_ms of 10, 20 or 30 and a rate of 8, 16, 32 or 48 kHz the
\* constructor's frame_bytes is sample_rate * 2 * chunk_ms / 1000 exactly,
\* and every frame handed to the classifier has that length.
C28_FrameBytesExact ==
    /\ \A rate \in RealRates : \A ms \in {10, 20, 30} :
          FrameBytes(rate, ms) * 1000 = rate * 2 * ms
    /\ (svc = "ready" /\ sample_rate \in VadRates) =>
          /\ frame_bytes * 1000 = sample_rate * 2 * chunk_ms
          /\ \A i \in 1..Len(classified) :
                Len(classified[i].frame) = frame_bytes

\* C28's case: the service was built for 16 kHz and 30 ms, frame_bytes is
\* 960, and the six bytes consumed so far have not been made a frame.
C28_Witness ==
    /\ config.sample_rate = 16000
    /\ frame_bytes = 960
    /\ Len(leftover_bytes) = 6
    /\ classified = << >>
    /\ pc = "while"

\* C29: every WAV built declares one channel, the service's sample rate and
\* 16 bits per sample, and its data chunk is the PCM input, byte for byte,
\* with the input's length in the header.
C29_WavContainer ==
    \A k \in 1..Len(posts) :
       /\ posts[k].nchannels = 1
       /\ posts[k].framerate = sample_rate
       /\ posts[k].sampwidth * 8 = 16
       /\ posts[k].datalength = Len(segments[k].audio)
       /\ posts[k].data = segments[k].audio

\* C29's case: a payload of three bytes, an odd length, was converted.
C29_Witness ==
    /\ Len(posts) = 1
    /\ posts[1].datalength = 3
    /\ Len(posts[1].data) = 3
    /\ pc = "post"

\* C30: a queue wait that times out only takes the consumer back to the
\* test of the flag: buffers, segment state, silence count, histories of
\* frames and dispatches, queue and flag are as they were.
C30_TimeoutChangesNothing ==
    [][ (pc = "get" /\ pc' = "while")
        => /\ UNCHANGED localVars
           /\ UNCHANGED histVars
           /\ UNCHANGED << audio_queue, is_listening, stream, cause >> ]_vars

\* C30's case: the wait timed out in the middle of a segment, with bytes
\* left over: both buffers are still there.
C30_Witness ==
    /\ timed_out
    /\ pc = "while"
    /\ in_speech
    /\ speech_buffer # << >>
    /\ leftover_bytes # << >>

\* C31: dispatch is synchronous in the consumer.  At most one POST is sent
\* and not yet reported; between the finalizing frame and the return of its
\* POST the consumer dequeues no byte and classifies no frame; and a frame
\* that comes after the frame finalizing segment k is classified only when
\* k dispatches have returned.
C31_DispatchSynchronous ==
    /\ [](/\ Len(posts) <= reported + 1
          /\ \A k \in 1..Len(segments) :
                Len(classified) > segments[k].at => reported >= k)
    /\ [][ (pc = "transcribe" \/ pc = "post")
             => /\ consumed' = consumed
                /\ classified' = classified
                /\ leftover_bytes' = leftover_bytes ]_vars

\* C31's case: a POST is in flight while the frame after the finalizing one
\* waits in the leftover buffer and a RawBlock waits in the queue.
C31_Witness ==
    /\ pc = "post"
    /\ Len(posts) = 1
    /\ reported = 0
    /\ HasFrame(leftover_bytes)
    /\ audio_queue # << >>
    /\ Len(classified) = segments[1].at

\* C32: the values derived from the configuration are read-only once the
\* constructor has run: no step of the capture callback, listen_infinite,
\* transcribe_chunk or stop_listening changes server_url, language,
\* sample_rate, chunk_ms, frame_bytes, silence_ms or silence_frames.
C32_ConfigReadOnly ==
    [][ svc # "new"
        => /\ server_url' = server_url
           /\ language' = language
           /\ sample_rate' = sample_rate
           /\ chunk_ms' = chunk_ms
           /\ frame_bytes' = frame_bytes
           /\ silence_ms' = silence_ms
           /\ silence_frames' = silence_frames ]_vars

\* C32's case: a session that captured, dispatched a segment and was stopped
\* has returned, and the service still has the values of its construction.
C32_Witness ==
    /\ svc = "ready"
    /\ pc = "done"
    /\ stop_requested
    /\ Len(posts) = 1
    /\ server_url = config.server_url
    /\ language = "fr"
    /\ sample_rate = 50
    /\ chunk_ms = 20
    /\ frame_bytes = 2
    /\ silence_ms = 30
    /\ silence_frames = 1

\* C33: at every frame boundary of the consumer loop the speech buffer is
\* non-empty exactly when the state is InSpeech, and in Idle the silence
\* count is 0.
C33_BufferMatchesState ==
    InLoop => /\ speech_buffer # << >> <=> in_speech
              /\ ~in_speech => num_silent_frames = 0

\* C33's case: the boundary after a segment was finalized and its dispatch
\* returned, with the next frame of the same RawBlock waiting: Idle, empty
\* buffer, count 0.
C33_Witness ==
    /\ pc = "frames"
    /\ reported = 1
    /\ Len(classified) = segments[1].at
    /\ HasFrame(leftover_bytes)
    /\ ~in_speech
    /\ speech_buffer = << >>
    /\ num_silent_frames = 0

\* The classifier's answers for the frames now in the speech buffer: the
\* buffer holds the last frames classified.
BufferFlags ==
    [j \in 1..Len(speech_buffer) |->
        classified[Len(classified) - Len(speech_buffer) + j].speech]

\* The silence frames in a row at the end of the speech buffer.
RECURSIVE TrailingSilence(_)
TrailingSilence(flags) ==
    IF flags = << >> \/ flags[Len(flags)] THEN 0
    ELSE 1 + TrailingSilence(SubSeq(flags, 1, Len(flags) - 1))

\* C34: at every frame boundary of the consumer loop the silence count is
\* the number of silence frames in a row at the end of the speech buffer
\* (whose frames are the last frames classified), and it is less than
\* silence_frames whenever silence_frames >= 1.
C34_SilenceCountIsTrailingRun ==
    InLoop =>
       /\ Len(speech_buffer) <= Len(classified)
       /\ speech_buffer = FramesOf(Len(classified) - Len(speech_buffer) + 1,
                                    Len(classified))
       /\ num_silent_frames = TrailingSilence(BufferFlags)
       /\ silence_frames >= 1 => num_silent_frames < silence_frames

\* C34's case: a segment of speech, silence, speech, silence is open with a
\* threshold of two: the count is 1, not the 2 silence frames in the buffer.
C34_Witness ==
    /\ InLoop
    /\ silence_frames = 2
    /\ Len(speech_buffer) = 4
    /\ BufferFlags = << TRUE, FALSE, TRUE, FALSE >>
    /\ num_silent_frames = 1

\* The frames joined into segment k: the last ones classified up to its
\* finalizing frame.
SegFrames(k) ==
    LET n == Len(segments[k].audio) \div frame_bytes
    IN  (segments[k].at - n + 1) .. segments[k].at

\* C35: every payload handed to transcribe_chunk is non-empty, a positive
\* multiple of frame_bytes long, and made of classified frames of which at
\* least one was classified as speech; what is sent is that payload.
C35_PayloadHasSpeech ==
    /\ \A k \in 1..Len(segments) :
          LET audio == segments[k].audio
              n == Len(audio) \div frame_bytes
          IN  /\ audio # << >>
              /\ n >= 1
              /\ Len(audio) = n * frame_bytes
              /\ n <= segments[k].at
              /\ audio = Join(FramesOf(segments[k].at - n + 1,
                                       segments[k].at))
              /\ \E i \in SegFrames(k) : classified[i].speech
    /\ \A k \in 1..Len(posts) :
          /\ k <= Len(segments)
          /\ posts[k].data = segments[k].audio
    /\ pc = "transcribe" => audio_data = segments[Len(segments)].audio

\* C35's case: after a silence frame in Idle, one speech frame and one
\* silence frame of two bytes each made a payload of four bytes.
C35_Witness ==
    /\ pc = "post"
    /\ frame_bytes = 2
    /\ Len(posts) = 1
    /\ Len(posts[1].data) = 4
    /\ Flags = << FALSE, TRUE, FALSE >>

\* C36: once the consumer has finished with a dequeued RawBlock (it is back
\* at the test of the flag or waiting on the queue), the leftover buffer
\* holds fewer than frame_bytes bytes.
C36_LeftoverBelowFrame ==
    (svc = "ready" /\ pc \in {"while", "get"})
        => Len(leftover_bytes) < frame_bytes

\* C36's case: five bytes were dequeued with three-byte frames: one frame
\* was classified and two bytes are left over.
C36_Witness ==
    /\ pc = "while"
    /\ frame_bytes = 3
    /\ Len(consumed) = 5
    /\ Len(classified) = 1
    /\ Len(leftover_bytes) = 2

\* C37: every RawBlock a listen_infinite invocation dequeues was captured
\* during that invocation: a RawBlock that was already in the queue when
\* the invocation began is never dequeued by it.  The queue being FIFO,
\* those RawBlocks are dequeued before any other, so this is: no invocation
\* dequeues while the head of the queue is one of them.
C37_NoStaleBlockConsumed ==
    [][ Len(audio_queue') < Len(audio_queue) => ~stale_head ]_vars

\* C38: the listening flag is true only while a listen_infinite invocation
\* is in progress; once the invocation has ended, by return or by raising,
\* the flag is false.
C38_FlagOnlyWhileListening ==
    is_listening => InProgress


====
